---- MODULE Spec2Model ----
(***************************************************************************)
(* State-machine model of streamlit_app.py: one script run of the          *)
(* dashboard (select, fetch, resample, RSI, ARIMA forecast, chart, peak    *)
(* text, recommendation, footer) and the re-run on a selection change.     *)
(*                                                                         *)
(* Timestamps are milliseconds since the epoch (the provider's unit; a     *)
(* pandas Timestamp is the same instant).  Floating-point numbers are      *)
(* modelled as exact extended rationals: a finite fraction n/d, +-inf or   *)
(* NaN, with the IEEE rules for division by zero, inf and NaN.  Rounding   *)
(* and the sign of zero are not modelled.                                  *)
(***************************************************************************)
EXTENDS Integers, Sequences, FiniteSets

VARIABLES pc, selected_crypto, crypto_id, prices, ohlc, rsi, latest_rsi,
          forecast, future_df, max_future_price, max_future_time,
          recent_moving_avg, recommendation, shown, error

vars == <<pc, selected_crypto, crypto_id, prices, ohlc, rsi, latest_rsi,
          forecast, future_df, max_future_price, max_future_time,
          recent_moving_avg, recommendation, shown, error>>

(***************************************************************************)
(* Bounds of the model.                                                    *)
(***************************************************************************)
\* 15-minute buckets 0..MaxBucket of the fetch window carry samples
MaxBucket == 2
\* longest provider response in the aggregation runs
MaxSamples == 3
\* sample prices are 1..MaxPrice in the aggregation runs
MaxPrice == 2
\* longest candle history in the RSI runs
MaxCandles == 16
\* close-to-close steps are -MaxDelta..MaxDelta in the RSI runs
MaxDelta == 2
\* forecast values are StartClose..StartClose+MaxF
MaxF == 1
\* longest candle history in the recommendation runs
MaxRecCandles == 5
\* first close of the generated candle histories
StartClose == 100

(***************************************************************************)
(* Program constants.                                                      *)
(***************************************************************************)
cryptocurrencies ==
    [name \in {"Bitcoin", "Ethereum", "XRP", "Kaspa", "Binance Coin", "Cardano"} |->
        CASE name = "Bitcoin" -> "bitcoin"
          [] name = "Ethereum" -> "ethereum"
          [] name = "XRP" -> "ripple"
          [] name = "Kaspa" -> "kaspa"
          [] name = "Binance Coin" -> "binancecoin"
          [] name = "Cardano" -> "cardano"]

\* list(cryptocurrencies.keys())[0]: the selectbox's default option
DefaultCrypto == "Bitcoin"

\* timedelta(hours=3) in ms
GmtOffsetMs == 10800000
\* the "15T" resampling rule in ms
BucketMs == 900000
\* timedelta(minutes=15) in ms, the step of future_timestamps
StepMs == 900000
window_length == 14
forecast_steps == 8
\* ohlc.iloc[-96:]
TrainingRows == 96
\* ohlc["close"].iloc[-4:]
MovingAvgRows == 4

BUY == "Recomendação: COMPRAR"
SELL == "Recomendação: VENDER"
HOLD == "Recomendação: RETER"

(***************************************************************************)
(* Floating-point values: [k, n, d] with k = "num" (the fraction n/d in    *)
(* lowest terms, d > 0), "inf" (n = 1 or -1 is the sign) or "nan".         *)
(* Unset marks a name the run has not assigned yet.                        *)
(***************************************************************************)
NaN == [k |-> "nan", n |-> 0, d |-> 1]
Inf(s) == [k |-> "inf", n |-> s, d |-> 1]
Unset == [k |-> "unset", n |-> 0, d |-> 1]

Abs(x) == IF x < 0 THEN -x ELSE x
Sign(x) == IF x < 0 THEN -1 ELSE IF x > 0 THEN 1 ELSE 0

RECURSIVE GCD(_, _)
GCD(a, b) == IF b = 0 THEN a ELSE GCD(b, a % b)

Num(n, d) ==
    LET s == IF d < 0 THEN -1 ELSE 1
        g == GCD(Abs(n), Abs(d))
    IN  [k |-> "num", n |-> (s * n) \div g, d |-> (s * d) \div g]

Zero == Num(0, 1)
One == Num(1, 1)
Hundred == Num(100, 1)

IsNaN(a) == a.k = "nan"

FNeg(a) ==
    CASE a.k = "num" -> Num(-a.n, a.d)
      [] a.k = "inf" -> Inf(-a.n)
      [] OTHER -> NaN

FAdd(a, b) ==
    CASE a.k = "num" /\ b.k = "num" -> Num(a.n * b.d + b.n * a.d, a.d * b.d)
      [] a.k = "inf" /\ b.k = "num" -> a
      [] a.k = "num" /\ b.k = "inf" -> b
      [] a.k = "inf" /\ b.k = "inf" -> IF a.n = b.n THEN a ELSE NaN
      [] OTHER -> NaN

FSub(a, b) == FAdd(a, FNeg(b))

\* x / 0 is +-inf for x # 0 and NaN for x = 0; x / inf is 0
FDiv(a, b) ==
    CASE a.k = "num" /\ b.k = "num" ->
            IF b.n # 0 THEN Num(a.n * b.d, a.d * b.n)
            ELSE IF a.n = 0 THEN NaN ELSE Inf(Sign(a.n))
      [] a.k = "inf" /\ b.k = "num" -> Inf(IF b.n < 0 THEN -a.n ELSE a.n)
      [] a.k = "num" /\ b.k = "inf" -> Zero
      [] OTHER -> NaN

\* a < b; any comparison with NaN is false
FLt(a, b) ==
    CASE a.k = "num" /\ b.k = "num" -> a.n * b.d < b.n * a.d
      [] a.k = "inf" /\ b.k = "num" -> a.n < 0
      [] a.k = "num" /\ b.k = "inf" -> b.n > 0
      [] a.k = "inf" /\ b.k = "inf" -> a.n < b.n
      [] OTHER -> FALSE

FGt(a, b) == FLt(b, a)

(***************************************************************************)
(* Series helpers (pandas).                                                *)
(***************************************************************************)
\* s.iloc[-n:]
iloc_last(s, n) == IF Len(s) <= n THEN s ELSE SubSeq(s, Len(s) - n + 1, Len(s))

Column(rows, f) == [i \in 1..Len(rows) |-> rows[i][f]]

RECURSIVE FSum(_)
FSum(s) == IF s = <<>> THEN Zero ELSE FAdd(s[1], FSum(Tail(s)))

\* Series.max() / "max" aggregation, NaN skipped; NaN when nothing is left
RECURSIVE FMax(_)
FMax(s) ==
    IF s = <<>> THEN NaN
    ELSE LET m == FMax(Tail(s))
         IN  IF IsNaN(s[1]) THEN m
             ELSE IF IsNaN(m) \/ FGt(s[1], m) THEN s[1] ELSE m

RECURSIVE FMin(_)
FMin(s) ==
    IF s = <<>> THEN NaN
    ELSE LET m == FMin(Tail(s))
         IN  IF IsNaN(s[1]) THEN m
             ELSE IF IsNaN(m) \/ FLt(s[1], m) THEN s[1] ELSE m

\* Series.mean(): NaN entries are skipped, an empty mean is 0/0 = NaN
series_mean(s) ==
    LET kept == SelectSeq(s, LAMBDA x : ~IsNaN(x))
    IN  FDiv(FSum(kept), Num(Len(kept), 1))

\* Series.diff(): the first entry is NaN
diff(s) == [i \in 1..Len(s) |-> IF i = 1 THEN NaN ELSE FSub(s[i], s[i - 1])]

\* Series.rolling(window=w).mean(): NaN until w observations are in the
\* window (min_periods = w), and while the window holds a NaN
rolling_mean(s, w) ==
    [i \in 1..Len(s) |->
        IF i < w THEN NaN
        ELSE LET win == SubSeq(s, i - w + 1, i)
             IN  IF \E j \in 1..w : IsNaN(win[j]) THEN NaN
                 ELSE FDiv(FSum(win), Num(w, 1))]

(***************************************************************************)
(* Lines 58-77: the DataFrame of samples and its 15-minute candles.        *)
(***************************************************************************)
\* pd.to_datetime(..., unit="ms") - timedelta(hours=3)
df(raw) ==
    [i \in 1..Len(raw) |->
        [timestamp |-> raw[i].timestamp - GmtOffsetMs,
         price |-> Num(raw[i].price, 1)]]

\* the left edge of the 15-minute bin holding t
BucketStart(t) == (t \div BucketMs) * BucketMs

\* "first" / "last" aggregation
agg_first(s) == IF s = <<>> THEN NaN ELSE s[1]
agg_last(s) == IF s = <<>> THEN NaN ELSE s[Len(s)]

\* fault: the open taken from the last sample of the bin
agg_open_from_last(s) == agg_last(s)

agg_open(s) == agg_first(s)
agg_high(s) == FMax(s)
agg_low(s) == FMin(s)
agg_close(s) == agg_last(s)

\* df.resample("15T").agg({...}): one row per bin from the first sample's
\* bin to the last sample's bin, all-NaN for a bin without samples
resample(frame) ==
    IF frame = <<>> THEN <<>>
    ELSE LET first == BucketStart(frame[1].timestamp)
             last == BucketStart(frame[Len(frame)].timestamp)
             nbins == ((last - first) \div BucketMs) + 1
         IN  [b \in 1..nbins |->
                LET t == first + (b - 1) * BucketMs
                    rows == SelectSeq(frame, LAMBDA r : BucketStart(r.timestamp) = t)
                    p == Column(rows, "price")
                IN  [timestamp |-> t,
                     open |-> agg_open(p),
                     high |-> agg_high(p),
                     low |-> agg_low(p),
                     close |-> agg_close(p)]]

\* fault: the rows of empty bins are kept (dropna left out)
dropna_skipped(rows) == rows

\* ohlc.dropna(inplace=True): rows with a NaN in any column go
dropna(rows) ==
    SelectSeq(rows, LAMBDA r : ~(IsNaN(r.open) \/ IsNaN(r.high)
                                  \/ IsNaN(r.low) \/ IsNaN(r.close)))

ohlc_of(raw) == dropna(resample(df(raw)))

(***************************************************************************)
(* Lines 80-85: the RSI column.                                            *)
(***************************************************************************)
delta(candles) == diff(Column(candles, "close"))

\* delta.where(delta > 0, 0): entries failing the test, NaN included, become 0
where_positive(s) == [i \in 1..Len(s) |-> IF FGt(s[i], Zero) THEN s[i] ELSE Zero]
where_negative(s) == [i \in 1..Len(s) |-> IF FLt(s[i], Zero) THEN s[i] ELSE Zero]

gain(candles) == rolling_mean(where_positive(delta(candles)), window_length)

\* fault: the falling steps averaged without the sign change
loss_not_negated(candles) ==
    rolling_mean(where_negative(delta(candles)), window_length)

loss(candles) ==
    LET neg == where_negative(delta(candles))
    IN  rolling_mean([i \in 1..Len(neg) |-> FNeg(neg[i])], window_length)

\* fault: a zero average loss makes the ratio undefined
rs_undefined_on_zero_loss(candles) ==
    LET g == gain(candles)
        l == loss(candles)
    IN  [i \in 1..Len(candles) |-> IF l[i] = Zero THEN NaN ELSE FDiv(g[i], l[i])]

rs(candles) ==
    LET g == gain(candles)
        l == loss(candles)
    IN  [i \in 1..Len(candles) |-> FDiv(g[i], l[i])]

rsi_of(candles) ==
    LET r == rs(candles)
    IN  [i \in 1..Len(candles) |-> FSub(Hundred, FDiv(Hundred, FAdd(One, r[i])))]

(***************************************************************************)
(* Lines 91-111: training window, forecast timestamps, peak.               *)
(***************************************************************************)
training_data(candles) == iloc_last(candles, TrainingRows)

\* fault: the timestamps continue a gapless 15-minute grid from the first
\* training candle
future_timestamps_from_grid(candles) ==
    LET td == training_data(candles)
    IN  [i \in 1..forecast_steps |-> td[1].timestamp + StepMs * (Len(td) - 1 + i)]

future_timestamps(candles) ==
    LET td == training_data(candles)
    IN  [i \in 1..forecast_steps |-> td[Len(td)].timestamp + StepMs * i]

future_df_of(candles, f) ==
    LET ts == future_timestamps(candles)
    IN  [i \in 1..forecast_steps |-> [timestamp |-> ts[i], predicted_close |-> f[i]]]

\* Series.idxmax(): the label of the first occurrence of the maximum
idxmax(frame) ==
    LET m == FMax(Column(frame, "predicted_close"))
        i == CHOOSE j \in 1..Len(frame) :
                /\ frame[j].predicted_close = m
                /\ \A h \in 1..(j - 1) : frame[h].predicted_close # m
    IN  frame[i].timestamp

(***************************************************************************)
(* Lines 160-166: the recommendation.                                      *)
(***************************************************************************)
recent_moving_avg_of(candles) ==
    series_mean(Column(iloc_last(candles, MovingAvgRows), "close"))

\* fault: SELL on any falling forecast, the moving average ignored
recommendation_sell_on_fall(f, avg) ==
    IF FGt(series_mean(diff(f)), Zero) /\ FLt(f[Len(f)], avg) THEN BUY
    ELSE IF FLt(series_mean(diff(f)), Zero) THEN SELL
    ELSE HOLD

\* fault: BUY on a trend that is not negative (>= in place of >)
recommendation_buy_on_flat(f, avg) ==
    IF ~FLt(series_mean(diff(f)), Zero) /\ FLt(f[Len(f)], avg) THEN BUY
    ELSE IF FLt(series_mean(diff(f)), Zero) /\ FGt(f[Len(f)], avg) THEN SELL
    ELSE HOLD

recommendation_of(f, avg) ==
    IF FGt(series_mean(diff(f)), Zero) /\ FLt(f[Len(f)], avg) THEN BUY
    ELSE IF FLt(series_mean(diff(f)), Zero) /\ FGt(f[Len(f)], avg) THEN SELL
    ELSE HOLD

(***************************************************************************)
(* Inputs: provider responses and forecasts.  A provider response is a     *)
(* time-ordered list of [timestamp, price]; the fetch window starts at     *)
(* FetchOrigin and samples sit at the first or the last millisecond of a   *)
(* 15-minute bucket.                                                       *)
(***************************************************************************)
FetchOrigin == GmtOffsetMs

SampleAt(b, o, p) == [timestamp |-> FetchOrigin + b * BucketMs + o, price |-> p]

AggSamples ==
    {SampleAt(b, o, p) : b \in 0..MaxBucket, o \in {0, BucketMs - 1}, p \in 1..MaxPrice}

TimeOrdered(s) == \A i \in 1..(Len(s) - 1) : s[i].timestamp <= s[i + 1].timestamp

\* every time-ordered response of at most MaxSamples samples
AggLists ==
    UNION {{s \in [1..n -> AggSamples] : TimeOrdered(s)} : n \in 0..MaxSamples}

\* one sample per bucket, at the bucket's first millisecond
OnePerBucket(closes) == [i \in 1..Len(closes) |-> SampleAt(i - 1, 0, closes[i])]

\* closes that move by d1 per candle up to candle k and by d2 after it
TwoPhase(n, k, d1, d2) ==
    [i \in 1..n |->
        StartClose + (IF i <= k THEN (i - 1) * d1 ELSE (k - 1) * d1 + (i - k) * d2)]

\* closes that move by d1 and d2 in turn
Alternating(n, d1, d2) ==
    [i \in 1..n |-> StartClose + (i \div 2) * d1 + ((i - 1) \div 2) * d2]

RsiCloses ==
    {TwoPhase(n, k, d1, d2) :
        n \in 0..MaxCandles, k \in 1..MaxCandles,
        d1 \in (-MaxDelta)..MaxDelta, d2 \in (-MaxDelta)..MaxDelta}
    \cup
    {Alternating(n, d1, d2) :
        n \in 0..MaxCandles, d1 \in (-MaxDelta)..MaxDelta, d2 \in (-MaxDelta)..MaxDelta}

RsiLists == {OnePerBucket(c) : c \in RsiCloses}

RecLists ==
    {OnePerBucket(TwoPhase(n, n, d, d)) : n \in 1..MaxRecCandles, d \in {-1, 0, 1}}

\* one sample in each bucket of B, in time order; B = {} is the empty response
InBuckets(B) ==
    LET n == Cardinality(B)
        order == CHOOSE f \in [1..n -> B] : \A i \in 1..n : \A j \in 1..n : i < j => f[i] < f[j]
    IN  [i \in 1..n |-> SampleAt(order[i], 0, StartClose)]

PipeLists == {InBuckets(B) : B \in SUBSET (0..MaxBucket)}

ForecastValues == StartClose..(StartClose + MaxF)
Forecasts == [1..forecast_steps -> ForecastValues]
FlatForecasts == {[i \in 1..forecast_steps |-> v] : v \in ForecastValues}

(***************************************************************************)
(* The script run.                                                         *)
(***************************************************************************)
NoError == [line |-> 0, type |-> "", names |-> ""]

Init ==
    /\ pc = "start"
    /\ selected_crypto = DefaultCrypto
    /\ crypto_id = ""
    /\ prices = <<>>
    /\ ohlc = <<>>
    /\ rsi = <<>>
    /\ latest_rsi = Unset
    /\ forecast = <<>>
    /\ future_df = <<>>
    /\ max_future_price = Unset
    /\ max_future_time = 0
    /\ recent_moving_avg = Unset
    /\ recommendation = ""
    /\ shown = {}
    /\ error = NoError

\* an uncaught exception ends the run; Streamlit shows it in place of the rest
Raise(line, type, names) ==
    /\ pc' = "error"
    /\ error' = [line |-> line, type |-> type, names |-> names]

\* lines 14-47: title, introduction, selectbox, crypto_id, the 30-hour window
Select ==
    /\ pc = "start"
    /\ shown' = {"title", "intro", "selectbox"}
    /\ crypto_id' = cryptocurrencies[selected_crypto]
    /\ pc' = "fetch"
    /\ UNCHANGED <<selected_crypto, prices, ohlc, rsi, latest_rsi, forecast, future_df,
                   max_future_price, max_future_time, recent_moving_avg,
                   recommendation, error>>

\* lines 50-59: the provider call answers with a list of samples
Fetch(responses) ==
    /\ pc = "fetch"
    /\ \E r \in responses : prices' = r
    /\ pc' = "aggregate"
    /\ UNCHANGED <<selected_crypto, crypto_id, ohlc, rsi, latest_rsi, forecast, future_df,
                   max_future_price, max_future_time, recent_moving_avg,
                   recommendation, shown, error>>

\* line 51: the provider call raises; its message is the provider's
FetchFail ==
    /\ pc = "fetch"
    /\ \E names \in {"", crypto_id} : Raise(51, "ProviderError", names)
    /\ UNCHANGED <<selected_crypto, crypto_id, prices, ohlc, rsi, latest_rsi, forecast,
                   future_df, max_future_price, max_future_time, recent_moving_avg,
                   recommendation, shown>>

\* lines 60-77
Aggregate ==
    /\ pc = "aggregate"
    /\ ohlc' = ohlc_of(prices)
    /\ pc' = "rsi"
    /\ UNCHANGED <<selected_crypto, crypto_id, prices, rsi, latest_rsi, forecast, future_df,
                   max_future_price, max_future_time, recent_moving_avg,
                   recommendation, shown, error>>

\* lines 80-88: the RSI column, then ohlc["rsi"].iloc[-1], an IndexError on
\* an empty frame
Rsi ==
    /\ pc = "rsi"
    /\ rsi' = rsi_of(ohlc)
    /\ IF ohlc = <<>>
       THEN /\ Raise(88, "IndexError", "")
            /\ UNCHANGED latest_rsi
       ELSE /\ latest_rsi' = rsi'[Len(ohlc)]
            /\ pc' = "forecast"
            /\ UNCHANGED error
    /\ UNCHANGED <<selected_crypto, crypto_id, prices, ohlc, forecast, future_df,
                   max_future_price, max_future_time, recent_moving_avg,
                   recommendation, shown>>

\* lines 91-104: the estimator returns forecast_steps predictions
Fit(forecasts) ==
    /\ pc = "forecast"
    /\ \E f \in forecasts :
          /\ forecast' = [i \in 1..forecast_steps |-> Num(f[i], 1)]
          /\ future_df' = future_df_of(ohlc, forecast')
    /\ pc' = "chart"
    /\ UNCHANGED <<selected_crypto, crypto_id, prices, ohlc, rsi, latest_rsi,
                   max_future_price, max_future_time, recent_moving_avg,
                   recommendation, shown, error>>

\* lines 92-93: the estimator raises (too little history, no convergence)
FitFail ==
    /\ pc = "forecast"
    /\ Raise(93, "EstimatorError", "")
    /\ UNCHANGED <<selected_crypto, crypto_id, prices, ohlc, rsi, latest_rsi, forecast,
                   future_df, max_future_price, max_future_time, recent_moving_avg,
                   recommendation, shown>>

\* lines 106-154: the peak of the forecast, the three panels, st.pyplot(fig)
Chart ==
    /\ pc = "chart"
    /\ max_future_price' = FMax(Column(future_df, "predicted_close"))
    /\ max_future_time' = idxmax(future_df)
    /\ shown' = shown \cup {"chart"}
    /\ pc' = "peak"
    /\ UNCHANGED <<selected_crypto, crypto_id, prices, ohlc, rsi, latest_rsi, forecast,
                   future_df, recent_moving_avg, recommendation, error>>

\* lines 114-151: the plotting library raises while the figure is built
ChartFail ==
    /\ pc = "chart"
    /\ Raise(117, "PlotError", "")
    /\ UNCHANGED <<selected_crypto, crypto_id, prices, ohlc, rsi, latest_rsi, forecast,
                   future_df, max_future_price, max_future_time, recent_moving_avg,
                   recommendation, shown>>

\* fault: formatting the peak's time can raise after the chart is displayed
Peak_may_raise ==
    /\ pc = "peak"
    /\ \/ /\ shown' = shown \cup {"peak"}
          /\ pc' = "recommend"
          /\ UNCHANGED error
       \/ /\ Raise(157, "AttributeError", "")
          /\ UNCHANGED shown
    /\ UNCHANGED <<selected_crypto, crypto_id, prices, ohlc, rsi, latest_rsi, forecast,
                   future_df, max_future_price, max_future_time, recent_moving_avg,
                   recommendation>>

\* line 157
Peak ==
    /\ pc = "peak"
    /\ shown' = shown \cup {"peak"}
    /\ pc' = "recommend"
    /\ UNCHANGED <<selected_crypto, crypto_id, prices, ohlc, rsi, latest_rsi, forecast,
                   future_df, max_future_price, max_future_time, recent_moving_avg,
                   recommendation, error>>

\* lines 160-168
Recommend ==
    /\ pc = "recommend"
    /\ recent_moving_avg' = recent_moving_avg_of(ohlc)
    /\ recommendation' = recommendation_of(forecast, recent_moving_avg')
    /\ shown' = shown \cup {"recommendation"}
    /\ pc' = "footer"
    /\ UNCHANGED <<selected_crypto, crypto_id, prices, ohlc, rsi, latest_rsi, forecast,
                   future_df, max_future_price, max_future_time, error>>

\* lines 171-175
Footer ==
    /\ pc = "footer"
    /\ shown' = shown \cup {"footer"}
    /\ pc' = "done"
    /\ UNCHANGED <<selected_crypto, crypto_id, prices, ohlc, rsi, latest_rsi, forecast,
                   future_df, max_future_price, max_future_time, recent_moving_avg,
                   recommendation, error>>

\* line 36: the user picks another coin; Streamlit runs the script again
\* from the top, nothing of the previous run is kept
Rerun ==
    /\ pc \in {"done", "error"}
    /\ \E name \in DOMAIN cryptocurrencies \ {selected_crypto} : selected_crypto' = name
    /\ pc' = "start"
    /\ crypto_id' = ""
    /\ prices' = <<>>
    /\ ohlc' = <<>>
    /\ rsi' = <<>>
    /\ latest_rsi' = Unset
    /\ forecast' = <<>>
    /\ future_df' = <<>>
    /\ max_future_price' = Unset
    /\ max_future_time' = 0
    /\ recent_moving_avg' = Unset
    /\ recommendation' = ""
    /\ shown' = {}
    /\ error' = NoError

\* the dashboard: any coin, responses with one sample in some of the buckets
Next ==
    \/ Select
    \/ Fetch(PipeLists)
    \/ FetchFail
    \/ Aggregate
    \/ Rsi
    \/ Fit(FlatForecasts)
    \/ FitFail
    \/ Chart
    \/ ChartFail
    \/ Peak
    \/ Recommend
    \/ Footer
    \/ Rerun

Spec == Init /\ [][Next]_vars

\* the first run over every short time-ordered response
NextAgg ==
    \/ Select
    \/ Fetch(AggLists)
    \/ FetchFail
    \/ Aggregate
    \/ Rsi
    \/ Fit(FlatForecasts)
    \/ FitFail
    \/ Chart
    \/ ChartFail
    \/ Peak
    \/ Recommend
    \/ Footer

SpecAgg == Init /\ [][NextAgg]_vars

\* the first run over candle histories of up to MaxCandles candles
NextRsi ==
    \/ Select
    \/ Fetch(RsiLists)
    \/ FetchFail
    \/ Aggregate
    \/ Rsi
    \/ Fit(FlatForecasts)
    \/ FitFail
    \/ Chart
    \/ ChartFail
    \/ Peak
    \/ Recommend
    \/ Footer

SpecRsi == Init /\ [][NextRsi]_vars

\* the first run over every forecast of forecast_steps values
NextRec ==
    \/ Select
    \/ Fetch(RecLists)
    \/ FetchFail
    \/ Aggregate
    \/ Rsi
    \/ Fit(Forecasts)
    \/ FitFail
    \/ Chart
    \/ ChartFail
    \/ Peak
    \/ Recommend
    \/ Footer

SpecRec == Init /\ [][NextRec]_vars

(***************************************************************************)
(* Properties.  They are stated on integers, apart from the operators of   *)
(* the model above: sample prices and forecast values are whole numbers    *)
(* in every run, so a close or a forecast value x is the integer x.n.      *)
(***************************************************************************)
RECURSIVE IntSum(_)
IntSum(s) == IF s = <<>> THEN 0 ELSE s[1] + IntSum(Tail(s))

\* the run's position: the RSI column, the forecast, ... have been assigned
AfterAggregate == pc \notin {"start", "fetch", "aggregate"}
AfterRsi == pc \in {"forecast", "chart", "peak", "recommend", "footer", "done"}
Rendered == {"chart", "peak", "recommendation"}

\* the sum of the 7 successive differences of the forecast: 7 times their mean
TrendSum == IntSum([i \in 1..(Len(forecast) - 1) |-> forecast[i + 1].n - forecast[i].n])
LastForecast == forecast[Len(forecast)].n
\* the closes of the last 4 candles (of all of them when there are fewer)
RecentCloses ==
    LET first == IF Len(ohlc) > 4 THEN Len(ohlc) - 3 ELSE 1
    IN  [i \in 1..(Len(ohlc) - first + 1) |-> ohlc[first + i - 1].close.n]
\* last forecast value < mean(RecentCloses), and >, without dividing
BelowAverage == LastForecast * Len(RecentCloses) < IntSum(RecentCloses)
AboveAverage == LastForecast * Len(RecentCloses) > IntSum(RecentCloses)

\* C1: once the recommendation is displayed, it is BUY exactly when the mean
\* of the 7 successive forecast differences is > 0 and the last forecast value
\* is < the mean of the last 4 closes, SELL exactly when that mean is < 0 and
\* the last forecast value is > the mean of the last 4 closes, HOLD in every
\* other case; the BUY and the SELL condition never hold together.
C1_RecommendationRule ==
    "recommendation" \in shown =>
        LET buy == TrendSum > 0 /\ BelowAverage
            sell == TrendSum < 0 /\ AboveAverage
        IN  /\ (recommendation = BUY) <=> buy
            /\ (recommendation = SELL) <=> sell
            /\ (recommendation = HOLD) <=> (~buy /\ ~sell)
            /\ ~(buy /\ sell)

\* a SELL from a forecast that is not monotone, over more than 4 candles
C1_Witness ==
    /\ "recommendation" \in shown
    /\ recommendation = SELL
    /\ Len(ohlc) > 4
    /\ \E i \in 1..(forecast_steps - 1) : forecast[i + 1].n > forecast[i].n

\* C2: a run that has passed the recommendation step holds exactly one of
\* BUY, SELL and HOLD, and HOLD whenever the mean of the successive forecast
\* differences is zero, whatever the recent moving average is.
C2_OneOfThree ==
    pc \in {"footer", "done"} =>
        /\ recommendation \in {BUY, SELL, HOLD}
        /\ "recommendation" \in shown
        /\ (TrendSum = 0 => recommendation = HOLD)

\* zero mean difference from a forecast that is not flat, with the last
\* forecast value below the moving average
C2_Witness ==
    /\ pc = "done"
    /\ TrendSum = 0
    /\ \E i \in 1..forecast_steps : forecast[i] # forecast[1]
    /\ BelowAverage
    /\ recommendation = HOLD

\* the sample's time on the display clock (GMT-3), in ms
LocalTime(sample) == sample.timestamp - 3 * 60 * 60 * 1000
QuarterHour == 15 * 60 * 1000
\* the sample falls in the 15-minute bucket starting at t
InBucket(sample, t) == t <= LocalTime(sample) /\ LocalTime(sample) < t + QuarterHour
SamplesIn(t) == SelectSeq(prices, LAMBDA sample : InBucket(sample, t))

\* C3: the candles' interval-starts are 15-minute aligned and strictly
\* increasing (so no two are equal), every candle's bucket holds a sample and
\* every sample's bucket has a candle.
C3_CandlesAreTheNonEmptyBuckets ==
    AfterAggregate =>
        /\ \A i \in 1..Len(ohlc) : ohlc[i].timestamp % QuarterHour = 0
        /\ \A i \in 1..(Len(ohlc) - 1) : ohlc[i].timestamp < ohlc[i + 1].timestamp
        /\ \A i \in 1..Len(ohlc) : SamplesIn(ohlc[i].timestamp) # <<>>
        /\ \A j \in 1..Len(prices) :
              \E i \in 1..Len(ohlc) : InBucket(prices[j], ohlc[i].timestamp)

\* two candles around an empty bucket, one of them from two samples
C3_Witness ==
    /\ AfterAggregate
    /\ Len(prices) = 3
    /\ Len(ohlc) = 2
    /\ ohlc[2].timestamp = ohlc[1].timestamp + 2 * QuarterHour

\* C10: a candle's open is the price of the first sample of its bucket, its
\* close the price of the last, its high the largest and its low the smallest
\* price of the bucket, so low <= open, close <= high; and every bucket with
\* a sample has its candle.
C10_CandleValues ==
    AfterAggregate =>
        /\ \A j \in 1..Len(prices) :
              \E i \in 1..Len(ohlc) : InBucket(prices[j], ohlc[i].timestamp)
        /\ \A i \in 1..Len(ohlc) :
              LET in == SamplesIn(ohlc[i].timestamp)
                  c == ohlc[i]
              IN  /\ in # <<>>
                  /\ c.open = Num(in[1].price, 1)
                  /\ c.close = Num(in[Len(in)].price, 1)
                  /\ \E j \in 1..Len(in) : c.high = Num(in[j].price, 1)
                  /\ \A j \in 1..Len(in) : in[j].price <= c.high.n
                  /\ \E j \in 1..Len(in) : c.low = Num(in[j].price, 1)
                  /\ \A j \in 1..Len(in) : in[j].price >= c.low.n
                  /\ c.low.n <= c.open.n /\ c.open.n <= c.high.n
                  /\ c.low.n <= c.close.n /\ c.close.n <= c.high.n

\* a candle of three samples whose high is neither its open nor its close
C10_Witness ==
    /\ AfterAggregate
    /\ \E i \in 1..Len(ohlc) :
          /\ Len(SamplesIn(ohlc[i].timestamp)) = 3
          /\ ohlc[i].high # ohlc[i].open
          /\ ohlc[i].high # ohlc[i].close

\* C4: the RSI is undefined (NaN) at each of the first 14 candles, so the
\* latest RSI is undefined when there are fewer than 15 candles.
C4_UndefinedBelow15 ==
    AfterRsi =>
        /\ \A i \in 1..Len(rsi) : i <= 14 => IsNaN(rsi[i])
        /\ (Len(ohlc) < 15 => IsNaN(latest_rsi))

\* C5: every RSI value that is defined lies in [0, 100].
C5_RsiRange ==
    \A i \in 1..Len(rsi) :
        ~IsNaN(rsi[i]) =>
            /\ rsi[i].k = "num"
            /\ 0 <= rsi[i].n
            /\ rsi[i].n <= 100 * rsi[i].d

\* a latest RSI strictly inside (0, 100) with the longest history
C5_Witness ==
    /\ AfterRsi
    /\ Len(ohlc) = MaxCandles
    /\ latest_rsi.k = "num"
    /\ 0 < latest_rsi.n
    /\ latest_rsi.n < 100 * latest_rsi.d
    /\ \E i \in 1..Len(rsi) : rsi[i] = Zero

\* the close-to-close steps in the rolling window that ends at candle i
WindowSteps(i) ==
    LET first == IF i - 13 < 2 THEN 2 ELSE i - 13
    IN  {ohlc[j].close.n - ohlc[j - 1].close.n : j \in first..i}

\* C6: where the rolling window holds no falling step and at least one rising
\* step (average loss 0, average gain > 0), the RSI is 100, and the RSI step
\* does not end the run.
C6_NoLossIs100 ==
    (AfterAggregate /\ pc # "rsi" /\ ohlc # <<>>) =>
        /\ error.line # 88
        /\ Len(rsi) = Len(ohlc)
        /\ \A i \in 14..Len(ohlc) :
              ((\A x \in WindowSteps(i) : x >= 0) /\ (\E x \in WindowSteps(i) : x > 0))
                  => rsi[i] = Num(100, 1)

\* the closes 100, 101, ..., 115
C6_Witness ==
    /\ AfterRsi
    /\ Len(ohlc) = 16
    /\ \A i \in 1..16 : ohlc[i].close = Num(99 + i, 1)
    /\ latest_rsi = Num(100, 1)

\* C7: once the forecaster has succeeded there are exactly 8 forecast points,
\* the k-th at the interval-start of the last candle (the bucket of the last
\* sample) plus 15*k minutes.
C7_ForecastTimestamps ==
    forecast # <<>> =>
        /\ Len(forecast) = 8
        /\ Len(future_df) = 8
        /\ InBucket(prices[Len(prices)], ohlc[Len(ohlc)].timestamp)
        /\ \A k \in 1..8 :
              /\ future_df[k].timestamp = ohlc[Len(ohlc)].timestamp + k * QuarterHour
              /\ future_df[k].predicted_close = forecast[k]

\* a forecast after a history with a dropped bucket
C7_Witness ==
    /\ forecast # <<>>
    /\ Len(ohlc) = 2
    /\ ohlc[2].timestamp - ohlc[1].timestamp > QuarterHour

\* C8: a run whose provider call answered with an empty list ends in an error
\* that names the selected coin, with no chart, peak text or recommendation.
C8_EmptyResponseNamesCoin ==
    (pc \in {"done", "error"} /\ error.line # 51 /\ prices = <<>>) =>
        /\ pc = "error"
        /\ error.names \in {selected_crypto, crypto_id}
        /\ shown \cap Rendered = {}

\* the position of a stage in the order fetch, aggregate, RSI, forecast, render
StageNo(p) ==
    CASE p = "start" -> 0
      [] p = "fetch" -> 1
      [] p = "aggregate" -> 2
      [] p = "rsi" -> 3
      [] p = "forecast" -> 4
      [] p = "chart" -> 5
      [] p = "peak" -> 6
      [] p = "recommend" -> 7
      [] p = "footer" -> 8
      [] p = "done" -> 9
      [] OTHER -> 10

\* C9: within a run the stages follow one another in order; no step fails
\* once the chart is displayed; a run that has ended shows the chart, the peak
\* text and the recommendation all together or none of them.
C9_AllOrNothing ==
    [][/\ (pc' \notin {"start", "error"} => StageNo(pc') = StageNo(pc) + 1)
       /\ (pc' = "start" => pc \in {"done", "error"})
       /\ ("chart" \in shown => pc' # "error")
       /\ (pc' \in {"done", "error"} =>
              (Rendered \subseteq shown' \/ shown' \cap Rendered = {}))
       /\ (pc' = "done" => Rendered \subseteq shown')]_vars

\* the last step that can fail has failed: nothing of the render is shown
C9_Witness ==
    /\ pc = "error"
    /\ error.line = 117
    /\ forecast # <<>>
    /\ shown = {"title", "intro", "selectbox"}

====
